---- MODULE Spec2Model ----
(***************************************************************************)
(* The Local Work Store of services/db (initDB, saveWork, getAllWorks)     *)
(* running against an IndexedDB engine.  Each call of one of the three     *)
(* exported functions is a "call" c; the engine answers its open request,  *)
(* its add/getAll request and its transaction with events, and the         *)
(* handlers the code installs settle the promise returned to the caller.   *)
(* On top of the store, the App component: the initial load, the upload    *)
(* handler, the works list, the upload modal, the notifications, and the   *)
(* object URLs the gallery and the viewer create.                          *)
(***************************************************************************)
EXTENDS Integers, Sequences, FiniteSets, TLC

\* ------------------------------------------------------------------ constants
DB_NAME == "AllInsightDB"
STORE_NAME == "works"
VERSION == 1

\* ------------------------------------------------------------------ bounds
\* number of calls of initDB / saveWork / getAllWorks in one run
MaxCalls == 3

Calls == 1..MaxCalls

\* ------------------------------------------------------------------ WorkItem
\* ids are strings; a string is modelled as its sequence of decimal digits.
Ids == { <<1>>, <<2>> }

Blob(type, bytes) == [type |-> type, bytes |-> bytes]

\* the contents a caller passes: the fields of a WorkItem other than id
Contents ==
  { [ title |-> "Alpha", category |-> "brand", description |-> "",
      coverBlob |-> Blob("image/png", <<137, 80>>),
      fileBlob |-> Blob("application/pdf", <<37, 80, 68>>),
      fileName |-> "a.pdf", fileType |-> "application/pdf",
      createdAt |-> 100 ],
    [ title |-> "Beta", category |-> "video", description |-> "demo",
      coverBlob |-> Blob("image/jpeg", <<255, 216>>),
      fileBlob |-> Blob("image/png", <<137>>),
      fileName |-> "b.png", fileType |-> "image/png",
      createdAt |-> 200 ] }

WorkItem(id, p) ==
  [ id |-> id, title |-> p.title, category |-> p.category,
    description |-> p.description, coverBlob |-> p.coverBlob,
    fileBlob |-> p.fileBlob, fileName |-> p.fileName,
    fileType |-> p.fileType, createdAt |-> p.createdAt ]

WorkItems == { WorkItem(id, p) : id \in Ids, p \in Contents }

NoWork == [ id |-> << >> ]

\* ------------------------------------------------------------------ state
VARIABLES
  dbVersion,     \* version of the database DB_NAME; 0: it does not exist
  objectStores,  \* object store name -> key path
  records,       \* the committed records of the object store STORE_NAME
  created,       \* number of createObjectStore calls made so far
  op,            \* call -> "none" | "initDB" | "saveWork" | "getAllWorks"
  arg,           \* call -> the WorkItem passed to saveWork
  pc,            \* call -> "idle" | "opening" | "upgrading" | "waiting" | "done"
  outcome,       \* call -> "none" | "pending" | "resolved" | "rejected"
  error,         \* call -> the error the promise was rejected with
  result,        \* call -> the array getAllWorks resolved with
  handle,        \* call -> TRUE when initDB handed its IDBDatabase back
  tx,            \* call -> "none" | "active" | "committing" | "complete" | "aborted"
  fault,         \* call -> the storage step of the call the engine failed
  found,         \* call -> the stored record whose key the add collided with
  snapshot,      \* call -> the works saveWork had resolved for when the call began
  quiescent,     \* call -> TRUE when no saveWork was pending when the call began
  \* the App component
  clock,         \* the value Date.now() returns
  mounted,       \* TRUE once App is mounted and its effect has run
  works,         \* the state `works`
  modalOpen,     \* the state `isUploadModalOpen`
  form,          \* the upload form: "empty" | "filled"
  toasts,        \* the notifications addToast has added, oldest first; the
                 \* timer that takes a notification off again is left aside
  role,          \* call -> "none" | "mount" | "upload" | "reload": who made it
  owner,         \* call -> for a reload, the saveWork call of its upload
  consumed,      \* call -> TRUE when the code awaiting the call has continued
  unhandled,     \* TRUE when a rejection reached no handler
  \* the gallery and the viewer
  filter,        \* the state `filter`
  activeWork,    \* the state `activeWork`; NoWork: the viewer is closed
  coverUrls,     \* number of live object URLs made for cover images
  fileUrls       \* number of live object URLs made by the viewer

appVars == << clock, mounted, works, modalOpen, form, toasts, role, owner,
              consumed, unhandled >>
viewVars == << filter, activeWork, coverUrls, fileUrls >>
uiVars == << appVars, viewVars >>

vars == << dbVersion, objectStores, records, created, op, arg, pc, outcome,
           error, result, handle, tx, fault, found, snapshot, quiescent,
           uiVars >>

dbVars == << dbVersion, objectStores, records, created >>
ghostVars == << snapshot, quiescent >>

\* ------------------------------------------------------------------ engine: pure parts

\* structured clone of a WorkItem, as store.add takes it: field by field,
\* a Blob by its type and bytes
CloneBlob(b) == [ type |-> b.type, bytes |-> b.bytes ]

StructuredClone(w) ==
  [ id |-> w.id, title |-> w.title, category |-> w.category,
    description |-> w.description, coverBlob |-> CloneBlob(w.coverBlob),
    fileBlob |-> CloneBlob(w.fileBlob), fileName |-> w.fileName,
    fileType |-> w.fileType, createdAt |-> w.createdAt ]

\* the key of a value: the store is created with { keyPath: 'id' }
KeyOf(w) == w.id

Min(a, b) == IF a < b THEN a ELSE b

\* order of string keys: code unit by code unit, a proper prefix first
KeyLess(a, b) ==
  \E i \in 1..(Min(Len(a), Len(b)) + 1) :
    /\ \A j \in 1..(i - 1) : a[j] = b[j]
    /\ \/ i > Len(a) /\ i <= Len(b)
       \/ i <= Len(a) /\ i <= Len(b) /\ a[i] < b[i]

RECURSIVE InKeyOrder(_)
\* store.getAll(): every record, in ascending order of key
InKeyOrder(recs) ==
  IF recs = {} THEN << >>
  ELSE LET first == CHOOSE r \in recs :
                      \A s \in recs : ~KeyLess(KeyOf(s), KeyOf(r))
       IN << first >> \o InKeyOrder(recs \ {first})

\* the records of `recs` stored under key k
WithKey(recs, k) == { r \in recs : KeyOf(r) = k }

\* store.put(w) in place of store.add(w): the record that holds the key is
\* replaced
StorePut(recs, w) ==
  [ error |-> "none", recs |-> (recs \ WithKey(recs, KeyOf(w))) \cup {w} ]

\* store.add(w), "store a record" with the no-overwrite flag: a record that
\* holds the key already is a ConstraintError and the store is left as it is
StoreAdd(recs, w) ==
  IF WithKey(recs, KeyOf(w)) = {}
    THEN [ error |-> "none", recs |-> recs \cup {w} ]
    ELSE [ error |-> "ConstraintError", recs |-> recs ]

\* the record of `recs` whose id is `id`, if there is one
Holder(recs, id) ==
  IF \E r \in recs : r.id = id THEN CHOOSE r \in recs : r.id = id ELSE NoWork

\* ------------------------------------------------------------------ getAllWorks: the sort

\* the comparator with its operands exchanged: oldest first
CompareAscending(a, b) == a.createdAt - b.createdAt

\* the comparator of result.sort: negative when a goes first
Compare(a, b) == b.createdAt - a.createdAt

RECURSIVE SortInsert(_, _)
\* x goes behind every element that does not compare greater than it
\* (Array.prototype.sort is stable)
SortInsert(s, x) ==
  IF s = << >> THEN << x >>
  ELSE IF Compare(Head(s), x) <= 0 THEN << Head(s) >> \o SortInsert(Tail(s), x)
  ELSE << x >> \o s

RECURSIVE SortFrom(_, _)
SortFrom(sorted, rest) ==
  IF rest = << >> THEN sorted
  ELSE SortFrom(SortInsert(sorted, Head(rest)), Tail(rest))

\* result.sort((a, b) => b.createdAt - a.createdAt)
Sort(s) == SortFrom(<< >>, s)

\* ------------------------------------------------------------------ initDB: the upgrade hook

\* db.objectStoreNames.contains(name)
Contains(stores, name) == name \in DOMAIN stores

\* createObjectStore(name) without the keyPath option: out-of-line keys
CreateObjectStoreNoKeyPath(stores, name, keyPath) ==
  [ n \in DOMAIN stores \cup {name} |-> IF n = name THEN "" ELSE stores[n] ]

\* db.createObjectStore(name, { keyPath })
CreateObjectStore(stores, name, keyPath) ==
  [ n \in DOMAIN stores \cup {name} |-> IF n = name THEN keyPath ELSE stores[n] ]

\* the hook with its test inverted: the store is never created
OnUpgradeNeededInverted(stores) ==
  IF Contains(stores, STORE_NAME)
    THEN CreateObjectStore(stores, STORE_NAME, "id")
    ELSE stores

\* request.onupgradeneeded
OnUpgradeNeeded(stores) ==
  IF ~Contains(stores, STORE_NAME)
    THEN CreateObjectStore(stores, STORE_NAME, "id")
    ELSE stores

\* ------------------------------------------------------------------ promises

\* the promise of call c settles, and the call is over
Settle(c, how, e) ==
  /\ outcome' = [outcome EXCEPT ![c] = how]
  /\ error' = [error EXCEPT ![c] = e]
  /\ pc' = [pc EXCEPT ![c] = "done"]

Resolve(c) == Settle(c, "resolved", "none")

Reject(c, e) == Settle(c, "rejected", e)

\* ------------------------------------------------------------------ the three functions

\* saveWork after `await initDB()`: db.transaction([STORE_NAME], 'readwrite'),
\* objectStore, store.add(work).  transaction() throws NotFoundError inside
\* the promise executor when the store does not exist: the promise rejects.
SaveWorkBody(c) ==
  IF Contains(objectStores, STORE_NAME)
    THEN /\ tx' = [tx EXCEPT ![c] = "active"]
         /\ pc' = [pc EXCEPT ![c] = "waiting"]
         /\ UNCHANGED << outcome, error >>
    ELSE /\ Reject(c, "NotFoundError")
         /\ UNCHANGED tx

\* getAllWorks after `await initDB()`: db.transaction([STORE_NAME], 'readonly'),
\* objectStore, store.getAll()
GetAllWorksBody(c) ==
  IF Contains(objectStores, STORE_NAME)
    THEN /\ tx' = [tx EXCEPT ![c] = "active"]
         /\ pc' = [pc EXCEPT ![c] = "waiting"]
         /\ UNCHANGED << outcome, error >>
    ELSE /\ Reject(c, "NotFoundError")
         /\ UNCHANGED tx

\* initDB's request.onsuccess: resolve(db); the caller awaiting initDB()
\* continues in the same task, before the engine delivers another event
OnOpenSuccess(c) ==
  /\ handle' = [handle EXCEPT ![c] = TRUE]
  /\ CASE op[c] = "initDB" -> Resolve(c) /\ UNCHANGED tx
       [] op[c] = "saveWork" -> SaveWorkBody(c)
       [] op[c] = "getAllWorks" -> GetAllWorksBody(c)
  /\ UNCHANGED << result >>

\* onerror calling resolve: initDB resolves with no database, and
\* db.transaction of saveWork / getAllWorks throws a TypeError
OnOpenErrorResolves(c) ==
  /\ IF op[c] = "initDB" THEN Resolve(c) ELSE Reject(c, "TypeError")
  /\ UNCHANGED << handle, tx, result >>

\* initDB's request.onerror: reject(request.error); the rejection passes
\* through `await initDB()` to the caller of saveWork / getAllWorks
OnOpenError(c) ==
  /\ Reject(c, "OpenError")
  /\ UNCHANGED << handle, tx, result >>

\* saveWork's request.onsuccess
OnAddSuccess(c) ==
  /\ Resolve(c)
  /\ UNCHANGED << handle, result >>

\* saveWork's onerror calling resolve
OnAddErrorResolves(c, e) ==
  /\ Resolve(c)
  /\ UNCHANGED << handle, result >>

\* saveWork's request.onerror: reject(request.error)
OnAddError(c, e) ==
  /\ Reject(c, e)
  /\ UNCHANGED << handle, result >>

\* getAllWorks' request.onsuccess: resolve(result.sort(...))
OnGetAllSuccess(c, all) ==
  /\ result' = [result EXCEPT ![c] = Sort(all)]
  /\ Resolve(c)
  /\ UNCHANGED << handle >>

\* getAllWorks without a request.onerror handler
OnGetAllErrorMissing(c, e) ==
  UNCHANGED << outcome, error, pc, handle, result >>

\* getAllWorks' request.onerror: reject(request.error)
OnGetAllError(c, e) ==
  /\ Reject(c, e)
  /\ UNCHANGED << handle, result >>

\* ------------------------------------------------------------------ App: the upload form

\* an input of type file with no file chosen
NoFile == [ name |-> "", type |-> "", bytes |-> << >> ]

File(name, blob) == [ name |-> name, type |-> blob.type, bytes |-> blob.bytes ]

\* the upload form as it is mounted and after form.reset()
EmptyForm ==
  [ title |-> "", desc |-> "", category |-> "brand",
    cover |-> NoFile, file |-> NoFile ]

\* the forms a user submits: with both files, or with a cover only
Forms ==
  { [ title |-> "Alpha", desc |-> "", category |-> "brand",
      cover |-> File("a.png", Blob("image/png", <<137, 80>>)),
      file |-> File("a.pdf", Blob("application/pdf", <<37, 80, 68>>)) ],
    [ title |-> "Gamma", desc |-> "", category |-> "exhibition",
      cover |-> File("c.png", Blob("image/png", <<137>>)),
      file |-> NoFile ] }

\* !input.files?.[0]
Missing(f) == f = NoFile

RECURSIVE NumberToString(_)
\* Number.prototype.toString of a non-negative integer: its decimal digits
NumberToString(n) == IF n < 10 THEN << n >> ELSE NumberToString(n \div 10) \o << n % 10 >>

\* Date.now(): the values the next read of the clock can return.  Only the
\* order and the equality of the values read matter, so at most one
\* millisecond passes between two reads.
DateNow == { clock, clock + 1 }

\* the object handleUpload builds from the form; t1 and t2 are its two reads
\* of the clock
NewWork(f, t1, t2) ==
  [ id |-> NumberToString(t1), title |-> f.title, description |-> f.desc,
    category |-> f.category,
    coverBlob |-> Blob(f.cover.type, f.cover.bytes),
    fileBlob |-> Blob(f.file.type, f.file.bytes),
    fileName |-> f.file.name, fileType |-> f.file.type,
    createdAt |-> t2 ]

\* ------------------------------------------------------------------ App: notifications

\* the texts of the three notifications
MissingFilesText == "upload the cover and the content file"
PublishedText == "work published"
SaveFailedText == "saving failed, the file may be too large"

\* number of notifications after which the user submits no form with a
\* file missing any more
MaxToasts == 1

\* a notification; its id, which only removeToast reads, is left out
Toast(text, type) == [ type |-> type, text |-> text ]

\* addToast(text, type)
AddToast(text, type) ==
  /\ toasts' = Append(toasts, Toast(text, type))
  /\ UNCHANGED clock

\* ------------------------------------------------------------------ Init

NoStores == [ n \in {} |-> "id" ]

Init ==
  /\ dbVersion = 0
  /\ objectStores = NoStores
  /\ records = {}
  /\ created = 0
  /\ op = [c \in Calls |-> "none"]
  /\ arg = [c \in Calls |-> NoWork]
  /\ pc = [c \in Calls |-> "idle"]
  /\ outcome = [c \in Calls |-> "none"]
  /\ error = [c \in Calls |-> "none"]
  /\ result = [c \in Calls |-> << >>]
  /\ handle = [c \in Calls |-> FALSE]
  /\ tx = [c \in Calls |-> "none"]
  /\ fault = [c \in Calls |-> "none"]
  /\ found = [c \in Calls |-> NoWork]
  /\ snapshot = [c \in Calls |-> {}]
  /\ quiescent = [c \in Calls |-> FALSE]
  /\ clock = 1
  /\ mounted = FALSE
  /\ works = << >>
  /\ modalOpen = FALSE
  /\ form = EmptyForm
  /\ toasts = << >>
  /\ role = [c \in Calls |-> "none"]
  /\ owner = [c \in Calls |-> 0]
  /\ consumed = [c \in Calls |-> FALSE]
  /\ unhandled = FALSE
  /\ filter = "all"
  /\ activeWork = NoWork
  /\ coverUrls = 0
  /\ fileUrls = 0

\* ------------------------------------------------------------------ the caller

\* the works saveWork has signalled success for
Saved == { arg[d] : d \in { e \in Calls : op[e] = "saveWork" /\ outcome[e] = "resolved" } }

\* the caller calls o (with work w): the function runs up to indexedDB.open,
\* whose request waits for the engine
Begin(c, o, w) ==
  /\ pc[c] = "idle"
  /\ \A d \in Calls : d < c => pc[d] # "idle"
  /\ op' = [op EXCEPT ![c] = o]
  /\ arg' = [arg EXCEPT ![c] = w]
  /\ pc' = [pc EXCEPT ![c] = "opening"]
  /\ outcome' = [outcome EXCEPT ![c] = "pending"]
  /\ snapshot' = [snapshot EXCEPT ![c] = IF o = "getAllWorks" THEN Saved ELSE {}]
  /\ quiescent' = [quiescent EXCEPT ![c] =
                     /\ o = "getAllWorks"
                     /\ \A d \in Calls : op[d] = "saveWork" => outcome[d] # "pending"]
  /\ UNCHANGED << dbVars, error, result, handle, tx, fault, found >>

CallInitDB(c) == Begin(c, "initDB", NoWork) /\ UNCHANGED uiVars

CallSaveWork(c) == \E w \in WorkItems : Begin(c, "saveWork", w) /\ UNCHANGED uiVars

CallGetAllWorks(c) == Begin(c, "getAllWorks", NoWork) /\ UNCHANGED uiVars

\* ------------------------------------------------------------------ the engine: open

\* an upload whose saveWork has resolved when every call of the run is made:
\* its reload is beyond the bound, and the run goes on without it
Waits(c) ==
  /\ role[c] = "upload"
  /\ outcome[c] = "resolved"
  /\ \A d \in Calls : pc[d] # "idle"

\* the code awaiting a settled call continues in the task that settled it
Drained ==
  \A c \in Calls :
    (role[c] # "none" /\ pc[c] = "done") => (consumed[c] \/ Waits(c))

\* an event of the engine is a task of its own: it runs when the code the
\* last one woke has continued, and changes nothing of the App
EngineTask == Drained /\ UNCHANGED uiVars

\* open requests on one database are served in the order they were made
OpenTurn(c) ==
  /\ pc[c] = "opening"
  /\ \A d \in Calls : d < c => pc[d] \notin {"opening", "upgrading"}

\* the engine reports a failure of a storage step of call c
Fail(c, step) == fault' = [fault EXCEPT ![c] = step]

\* the database cannot be opened: the error event
OpenFails(c) ==
  /\ OpenTurn(c)
  /\ Fail(c, "open")
  /\ OnOpenError(c)
  /\ UNCHANGED << dbVars, op, arg, found, ghostVars >>
  /\ EngineTask

\* the stored version is below VERSION: the engine starts the versionchange
\* transaction and fires upgradeneeded
UpgradeNeeded(c) ==
  /\ OpenTurn(c)
  /\ dbVersion < VERSION
  /\ dbVersion' = VERSION
  /\ objectStores' = OnUpgradeNeeded(objectStores)
  /\ created' = IF objectStores' # objectStores THEN created + 1 ELSE created
  /\ pc' = [pc EXCEPT ![c] = "upgrading"]
  /\ UNCHANGED << records, op, arg, outcome, error, result, handle, tx,
                  fault, found, ghostVars >>
  /\ EngineTask

\* the versionchange transaction commits: the success event
UpgradeCompletes(c) ==
  /\ pc[c] = "upgrading"
  /\ OnOpenSuccess(c)
  /\ UNCHANGED << dbVars, op, arg, fault, found, ghostVars >>
  /\ EngineTask

\* the versionchange transaction aborts: the database is as it was before
\* the open, and the open request gets the error event
UpgradeAborts(c) ==
  /\ pc[c] = "upgrading"
  /\ Fail(c, "upgrade")
  /\ dbVersion' = 0
  /\ objectStores' = NoStores
  /\ records' = {}
  /\ OnOpenError(c)
  /\ UNCHANGED << created, op, arg, found, ghostVars >>
  /\ EngineTask

\* the stored version is VERSION: the success event
OpenSucceeds(c) ==
  /\ OpenTurn(c)
  /\ dbVersion = VERSION
  /\ OnOpenSuccess(c)
  /\ UNCHANGED << dbVars, op, arg, fault, found, ghostVars >>
  /\ EngineTask

\* ------------------------------------------------------------------ the engine: transactions

Live(d) == tx[d] \in {"active", "committing"}

\* transactions on one store run in the order they were created (the order
\* of the calls, as the open requests are served in order): a readwrite one
\* after every earlier one has finished, a readonly one after every earlier
\* readwrite one has
CanStart(c) ==
  /\ pc[c] = "waiting"
  /\ tx[c] = "active"
  /\ \A d \in Calls : d < c /\ Live(d) =>
        op[c] # "saveWork" /\ op[d] # "saveWork"

\* what the engine answers the add request of call c with
Added(c) == StoreAdd(records, StructuredClone(arg[c]))

\* the record that held the id of the work when the add request was served
Found(c) == found' = [found EXCEPT ![c] = Holder(records, arg[c].id)]

\* add: no record holds the key; the record is written in the transaction
\* and the request gets the success event
AddSucceeds(c) ==
  /\ op[c] = "saveWork"
  /\ CanStart(c)
  /\ Added(c).error = "none"
  /\ Found(c)
  /\ OnAddSuccess(c)
  /\ tx' = [tx EXCEPT ![c] = "committing"]
  /\ UNCHANGED << dbVars, op, arg, fault, ghostVars >>
  /\ EngineTask

\* add: a record holds the key; the error event, and the transaction aborts
AddCollides(c) ==
  /\ op[c] = "saveWork"
  /\ CanStart(c)
  /\ Added(c).error # "none"
  /\ Found(c)
  /\ OnAddError(c, Added(c).error)
  /\ tx' = [tx EXCEPT ![c] = "aborted"]
  /\ UNCHANGED << dbVars, op, arg, fault, ghostVars >>
  /\ EngineTask

\* add: the engine cannot write the record (quota, I/O); the error event,
\* and the transaction aborts
AddFails(c) ==
  /\ op[c] = "saveWork"
  /\ CanStart(c)
  /\ Added(c).error = "none"
  /\ Fail(c, "request")
  /\ Found(c)
  /\ OnAddError(c, "QuotaExceededError")
  /\ tx' = [tx EXCEPT ![c] = "aborted"]
  /\ UNCHANGED << dbVars, op, arg, ghostVars >>
  /\ EngineTask

\* the readwrite transaction commits: what it wrote is in the store
Commits(c) ==
  /\ tx[c] = "committing"
  /\ records' = Added(c).recs
  /\ tx' = [tx EXCEPT ![c] = "complete"]
  /\ UNCHANGED << dbVersion, objectStores, created, op, arg, pc, outcome, error,
                  result, handle, fault, found, ghostVars >>
  /\ EngineTask

\* the commit fails: the transaction aborts and its record is dropped.  The
\* abort event goes to the transaction, on which saveWork sets no handler.
CommitFails(c) ==
  /\ tx[c] = "committing"
  /\ Fail(c, "commit")
  /\ tx' = [tx EXCEPT ![c] = "aborted"]
  /\ UNCHANGED << dbVars, op, arg, pc, outcome, error, result, handle,
                  found, ghostVars >>
  /\ EngineTask

\* getAll: the success event with every record in key order; the readonly
\* transaction has nothing to write and completes
GetAllSucceeds(c) ==
  /\ op[c] = "getAllWorks"
  /\ CanStart(c)
  /\ OnGetAllSuccess(c, InKeyOrder(records))
  /\ tx' = [tx EXCEPT ![c] = "complete"]
  /\ UNCHANGED << dbVars, op, arg, fault, found, ghostVars >>
  /\ EngineTask

\* getAll: the engine cannot read the store; the error event
GetAllFails(c) ==
  /\ op[c] = "getAllWorks"
  /\ CanStart(c)
  /\ Fail(c, "request")
  /\ OnGetAllError(c, "UnknownError")
  /\ tx' = [tx EXCEPT ![c] = "aborted"]
  /\ UNCHANGED << dbVars, op, arg, found, ghostVars >>
  /\ EngineTask

\* ------------------------------------------------------------------ specification

Caller == \E c \in Calls : CallInitDB(c) \/ CallSaveWork(c) \/ CallGetAllWorks(c)

EngineStep(c) ==
  \/ OpenFails(c)
  \/ UpgradeNeeded(c)
  \/ UpgradeCompletes(c)
  \/ UpgradeAborts(c)
  \/ OpenSucceeds(c)
  \/ AddSucceeds(c)
  \/ AddCollides(c)
  \/ AddFails(c)
  \/ Commits(c)
  \/ CommitFails(c)
  \/ GetAllSucceeds(c)
  \/ GetAllFails(c)

Engine == \E c \in Calls : EngineStep(c)

Next == Caller \/ Engine

Spec == Init /\ [][Next]_vars

\* ------------------------------------------------------------------ App: actions

uiStoreVars == << dbVars, op, arg, pc, outcome, error, result, handle, tx,
                  fault, found, ghostVars >>

\* the effect of App runs once, after the first render: loadData() calls
\* getAllWorks()
Mount ==
  /\ ~mounted
  /\ mounted' = TRUE
  /\ \E c \in Calls :
       /\ Begin(c, "getAllWorks", NoWork)
       /\ role' = [role EXCEPT ![c] = "mount"]
  /\ UNCHANGED << clock, works, modalOpen, form, toasts, owner, consumed,
                  unhandled, viewVars >>

\* an event of the user is a task of its own, like an event of the engine
UserTask == mounted /\ Drained

\* the lock button
OpenModal ==
  /\ UserTask
  /\ ~modalOpen
  /\ modalOpen' = TRUE
  /\ form' = EmptyForm
  /\ UNCHANGED << uiStoreVars, clock, mounted, works, toasts, role, owner,
                  consumed, unhandled, viewVars >>

\* the backdrop and the X button: the form is unmounted with the modal
CloseModal ==
  /\ UserTask
  /\ modalOpen
  /\ modalOpen' = FALSE
  /\ form' = EmptyForm
  /\ UNCHANGED << uiStoreVars, clock, mounted, works, toasts, role, owner,
                  consumed, unhandled, viewVars >>

\* the user fills the form in and submits it: handleUpload up to its first
\* await
HandleUpload ==
  /\ UserTask
  /\ modalOpen
  /\ \E f \in Forms :
       /\ form' = f
       /\ IF Missing(f.cover) \/ Missing(f.file)
            THEN /\ Len(toasts) < MaxToasts
                 /\ AddToast(MissingFilesText, "error")
                 /\ UNCHANGED << uiStoreVars, role >>
            ELSE /\ \E t1 \in DateNow : \E t2 \in { t1, t1 + 1 } :
                      /\ clock' = t2
                      /\ \E c \in Calls :
                           /\ Begin(c, "saveWork", NewWork(f, t1, t2))
                           /\ role' = [role EXCEPT ![c] = "upload"]
                 /\ UNCHANGED toasts
  /\ UNCHANGED << mounted, works, modalOpen, owner, consumed, unhandled,
                  viewVars >>

\* loadData without its try/catch: the rejection of getAllWorks leaves it
OnLoadDataSettledUncaught(c) ==
  IF outcome[c] = "resolved"
    THEN works' = result[c] /\ UNCHANGED unhandled
    ELSE works' = works /\ unhandled' = TRUE

\* loadData after its await: setWorks(data), or console.error in the catch
OnLoadDataSettled(c) ==
  IF outcome[c] = "resolved"
    THEN works' = result[c] /\ UNCHANGED unhandled
    ELSE UNCHANGED << works, unhandled >>

\* the effect's loadData() settles
MountContinues(c) ==
  /\ role[c] = "mount"
  /\ OnLoadDataSettled(c)
  /\ UNCHANGED << uiStoreVars, clock, modalOpen, form, toasts, role, owner >>

\* the catch of handleUpload that also closes the modal
OnSaveRejectedCloses ==
  /\ AddToast(SaveFailedText, "error")
  /\ modalOpen' = FALSE
  /\ form' = EmptyForm

\* the catch of handleUpload
OnSaveRejected ==
  /\ AddToast(SaveFailedText, "error")
  /\ UNCHANGED << modalOpen, form >>

\* handleUpload after `await saveWork(newWork)`: loadData() calls
\* getAllWorks(), or the catch
SaveContinues(c) ==
  /\ role[c] = "upload"
  /\ IF outcome[c] = "resolved"
       THEN /\ \E d \in Calls :
                 /\ Begin(d, "getAllWorks", NoWork)
                 /\ role' = [role EXCEPT ![d] = "reload"]
                 /\ owner' = [owner EXCEPT ![d] = c]
            /\ UNCHANGED << clock, toasts, modalOpen, form >>
       ELSE /\ OnSaveRejected
            /\ UNCHANGED << uiStoreVars, role, owner >>
  /\ UNCHANGED << works, unhandled >>

\* handleUpload after `await loadData()`
OnReloaded ==
  /\ modalOpen' = FALSE
  /\ AddToast(PublishedText, "success")
  /\ form' = EmptyForm

\* loadData() of handleUpload settles, and handleUpload goes on
ReloadContinues(c) ==
  /\ role[c] = "reload"
  /\ OnLoadDataSettled(c)
  /\ OnReloaded
  /\ UNCHANGED << uiStoreVars, role, owner >>

\* the code awaiting call c continues, in the task that settled the call
Continue(c) ==
  /\ pc[c] = "done"
  /\ ~consumed[c]
  /\ consumed' = [consumed EXCEPT ![c] = TRUE]
  /\ MountContinues(c) \/ SaveContinues(c) \/ ReloadContinues(c)
  /\ UNCHANGED << mounted, viewVars >>

AppNext ==
  \/ Mount
  \/ OpenModal
  \/ CloseModal
  \/ HandleUpload
  \/ \E c \in Calls : Continue(c)
  \/ Engine

AppSpec == Init /\ [][AppNext]_vars

\* the elements of a list
Elems(s) == { s[i] : i \in 1..Len(s) }

\* ------------------------------------------------------------------ App: the gallery and the viewer
\* The object URLs are followed in a specification of their own, in which
\* the works list is set by a load and the store is left aside.

\* the buttons of the filter bar
Filters == { "all", "brand", "video", "exhibition" }

\* filteredWorks
FilteredWorks(ws, f) ==
  IF f = "all" THEN ws ELSE SelectSeq(ws, LAMBDA w : w.category = f)

\* works.length === 0: the empty state is rendered in place of the grid
EmptyGallery(ws) == Len(ws) = 0

\* the cards a render of App draws; each calls URL.createObjectURL for its
\* cover
Cards(ws, f) == IF EmptyGallery(ws) THEN 0 ELSE Len(FilteredWorks(ws, f))

\* number of live cover URLs up to which a run is followed
MaxUrls == 6

\* a render of App: one object URL more for every card, none revoked
Render ==
  /\ coverUrls' = coverUrls + Cards(works', filter')
  /\ coverUrls' <= MaxUrls

\* the lists a load can set: what getAllWorks resolves with on a store
StoredLists ==
  { Sort(InKeyOrder(recs)) :
      recs \in { r \in SUBSET WorkItems : \A a, b \in r : a.id = b.id => a = b } }

viewFrame == << uiStoreVars, clock, mounted, modalOpen, form, toasts, role,
                owner, consumed, unhandled >>

\* setWorks(data): a load resolves, with a new array that holds the works
\* listed before (nothing is ever deleted from the store)
SetWorks ==
  /\ \E ws \in StoredLists : Elems(works) \subseteq Elems(ws) /\ works' = ws
  /\ UNCHANGED << filter, activeWork, fileUrls >>
  /\ Render
  /\ UNCHANGED viewFrame

\* a button of the filter bar
SetFilter ==
  /\ \E f \in Filters : f # filter /\ filter' = f
  /\ UNCHANGED << works, activeWork, fileUrls >>
  /\ Render
  /\ UNCHANGED viewFrame

\* the cleanup of the effect of WorkViewer: URL.revokeObjectURL(url)
ViewerCleanup == fileUrls' = fileUrls - 1

\* the effect of WorkViewer: URL.createObjectURL(work.fileBlob)
ViewerEffect == fileUrls' = fileUrls + 1

\* a click on a card: setActiveWork(work), and WorkViewer mounts
OpenViewer ==
  /\ activeWork = NoWork
  /\ \E i \in 1..Len(FilteredWorks(works, filter)) :
       activeWork' = FilteredWorks(works, filter)[i]
  /\ ViewerEffect
  /\ UNCHANGED << works, filter >>
  /\ Render
  /\ UNCHANGED viewFrame

\* onClose of the viewer: setActiveWork(null), and WorkViewer unmounts
CloseViewer ==
  /\ activeWork # NoWork
  /\ activeWork' = NoWork
  /\ ViewerCleanup
  /\ UNCHANGED << works, filter >>
  /\ Render
  /\ UNCHANGED viewFrame

ViewNext == SetWorks \/ SetFilter \/ OpenViewer \/ CloseViewer

ViewSpec == Init /\ [][ViewNext]_vars

\* ------------------------------------------------------------------ claims: vocabulary


Listed(c) == op[c] = "getAllWorks" /\ outcome[c] = "resolved"

SavesBefore(c) == { d \in Calls : d < c /\ op[d] = "saveWork" }

Alpha1 == CHOOSE w \in WorkItems : w.id = <<1>> /\ w.title = "Alpha"
Beta2 == CHOOSE w \in WorkItems : w.id = <<2>> /\ w.title = "Beta"

\* ------------------------------------------------------------------ C1

\* C1: a getAllWorks that begins when every earlier saveWork has settled, the
\* works of those saveWork calls having pairwise distinct ids, returns
\* exactly the works saveWork signalled success for: as many, none missing,
\* none added, every field equal.
C1_RoundTrip ==
  \A c \in Calls :
    ( /\ Listed(c)
      /\ quiescent[c]
      /\ \A d, e \in SavesBefore(c) : d # e => arg[d].id # arg[e].id )
    => /\ Len(result[c]) = Cardinality(snapshot[c])
       /\ Elems(result[c]) = snapshot[c]

\* ------------------------------------------------------------------ C2

Descending(s) == \A i \in 1..(Len(s) - 1) : s[i].createdAt >= s[i + 1].createdAt

\* C2: every array getAllWorks resolves with is sorted by createdAt
\* descending, whatever the key order getAll yields; the works "1"
\* (createdAt 100) and "2" (createdAt 200) come out as ["2", "1"].
C2_SortedDescending ==
  \A c \in Calls :
    Listed(c) =>
      /\ Descending(result[c])
      /\ Elems(result[c]) = {Alpha1, Beta2} => result[c] = << Beta2, Alpha1 >>

\* getAll yielded the older work first and the array came out newest first
C2_Witness ==
  \E c \in Calls :
    /\ Listed(c)
    /\ result[c] = << Beta2, Alpha1 >>
    /\ InKeyOrder(Elems(result[c])) = << Alpha1, Beta2 >>

\* ------------------------------------------------------------------ C7

\* C7: a getAllWorks that begins after saveWork signalled success returns
\* the saved work.
C7_VisibleAfterSuccess ==
  \A c \in Calls : Listed(c) => snapshot[c] \subseteq Elems(result[c])

\* ------------------------------------------------------------------ C8

\* C8: no call resolves when the engine failed one of its storage steps
\* (the open, the request, or the transaction).
C8_NoFailureSwallowed ==
  \A c \in Calls : fault[c] # "none" => outcome[c] # "resolved"

\* ------------------------------------------------------------------ C3

UniqueIds(ws) == \A a, b \in ws : a.id = b.id => a = b

\* C3: a saveWork whose add request is served while a record holds the id of
\* its work is rejected with ConstraintError (the engine's duplicate-key
\* error) and writes nothing: that record is still stored as it was, no two
\* stored records share an id, and no array getAllWorks returns holds two
\* records with one id.
C3_DuplicateRejected ==
  /\ \A c \in Calls :
       found[c] # NoWork =>
         /\ outcome[c] = "rejected"
         /\ error[c] = "ConstraintError"
         /\ tx[c] = "aborted"
         /\ found[c] \in records
  /\ UniqueIds(records)
  /\ \A c \in Calls :
       Listed(c) => Cardinality(Elems(result[c])) = Len(result[c])
                    /\ UniqueIds(Elems(result[c]))

\* a work was refused because another work with its id and other fields was
\* stored, and a later getAllWorks returned that one record alone
C3_Witness ==
  \E c, g \in Calls :
    /\ c < g
    /\ found[c] # NoWork
    /\ found[c] # arg[c]
    /\ outcome[c] = "rejected"
    /\ Listed(g)
    /\ result[g] = << found[c] >>

\* ------------------------------------------------------------------ C4

\* C4: a getAllWorks before which no saveWork was ever called, the very first
\* call against a database that does not exist yet included, resolves with
\* the empty array; it is rejected only when the engine failed its open or
\* its read.
C4_EmptyStoreListsEmpty ==
  \A c \in Calls :
    (op[c] = "getAllWorks" /\ SavesBefore(c) = {}) =>
      /\ outcome[c] = "resolved" => result[c] = << >>
      /\ outcome[c] = "rejected" => fault[c] # "none"

\* getAllWorks as the first call ever: it created the database and resolved
\* with the empty array
C4_Witness ==
  /\ op[1] = "getAllWorks"
  /\ outcome[1] = "resolved"
  /\ result[1] = << >>
  /\ created = 1
  /\ records = {}

\* ------------------------------------------------------------------ C5

OpenFailed(c) == fault[c] \in {"open", "upgrade"}

\* the open step of call c ends in this step
OpenStepOf(c) == pc[c] \in {"opening", "upgrading"} /\ pc'[c] # pc[c]

\* C5: the open step never fails unless the engine fails it; every handle it
\* hands back is on version VERSION of the database with the one object
\* store STORE_NAME keyed by id; the store is created once unless the engine
\* failed an open; and an open step against the database at VERSION leaves
\* its version, object stores and records as they are.
C5_InitIdempotent ==
  /\ [] /\ \A c \in Calls :
             /\ (op[c] = "initDB" /\ outcome[c] = "rejected") => OpenFailed(c)
             /\ error[c] \in {"OpenError", "NotFoundError"} => OpenFailed(c)
             /\ handle[c] =>
                  /\ dbVersion = VERSION
                  /\ DOMAIN objectStores = {STORE_NAME}
                  /\ objectStores[STORE_NAME] = "id"
        /\ (\A c \in Calls : ~OpenFailed(c)) => created <= 1
  /\ [][ \A c \in Calls :
           (OpenStepOf(c) /\ dbVersion = VERSION /\ pc[c] = "opening")
             => UNCHANGED << dbVersion, objectStores, records, created >> ]_vars

\* three initDB calls in a row, each resolved with a handle, the store
\* created by the first alone
C5_Witness ==
  /\ \A c \in 1..3 : op[c] = "initDB" /\ outcome[c] = "resolved" /\ handle[c]
  /\ created = 1

\* ------------------------------------------------------------------ C6

\* C6: a record that is in the store stays in the store, with the same
\* field values, at every step of every call.
C6_RecordsOnlyGrow == [][ records \subseteq records' ]_vars

\* two records are stored after a saveWork was refused and a getAllWorks ran
C6_Witness ==
  /\ Cardinality(records) = 2
  /\ \E c \in Calls : found[c] # NoWork \/ Listed(c)

\* ------------------------------------------------------------------ C9

\* C9: saveWork and getAllWorks issue their request only after their own
\* open step succeeded, and resolve only then; with the open succeeded they
\* are rejected by their request alone, never for want of an initDB call;
\* when their open step fails they are rejected with the open error, have
\* created no transaction and made no request, and the records are as they
\* were.
C9_OpensFirst ==
  /\ [] \A c \in Calls :
          op[c] \in {"saveWork", "getAllWorks"} =>
            /\ tx[c] # "none" => handle[c]
            /\ outcome[c] = "resolved" => handle[c]
            /\ (outcome[c] = "rejected" /\ ~OpenFailed(c)) =>
                 handle[c] /\ tx[c] = "aborted"
            /\ OpenFailed(c) =>
                 /\ outcome[c] = "rejected"
                 /\ error[c] = "OpenError"
                 /\ ~handle[c]
                 /\ tx[c] = "none"
                 /\ found[c] = NoWork
  /\ [][ \A c \in Calls :
           (~OpenFailed(c) /\ OpenFailed(c)') => records' = records ]_vars

\* no initDB call was made: saveWork was the first call, getAllWorks the
\* second, both resolved; and the open of the third call failed
C9_Witness ==
  /\ op[1] = "saveWork" /\ outcome[1] = "resolved"
  /\ op[2] = "getAllWorks" /\ outcome[2] = "resolved" /\ Len(result[2]) = 1
  /\ op[3] = "saveWork" /\ OpenFailed(3) /\ outcome[3] = "rejected"

\* ------------------------------------------------------------------ C10

\* the engine answers every request it holds
FairSpec == Spec /\ WF_vars(Engine)

Settled(c) == outcome[c] \in {"resolved", "rejected"}

\* C10: the promise of every call that has begun is eventually resolved or
\* rejected.
C10_EverySettles ==
  \A c \in Calls : (outcome[c] = "pending") ~> Settled(c)

\* every call has begun and settled, one resolved and one rejected
C10_Witness ==
  /\ \A c \in Calls : Settled(c)
  /\ \E c \in Calls : outcome[c] = "rejected"
  /\ \E c \in Calls : outcome[c] = "resolved"

\* ------------------------------------------------------------------ claims: the App

\* the work of upload call c was inserted: its transaction committed
Inserted(c) == role[c] = "upload" /\ tx[c] = "complete"

\* the place of work w in the list s
Position(s, w) == CHOOSE i \in 1..Len(s) : s[i] = w

\* C11: of two works the upload handler inserted, the one inserted later has
\* the strictly greater createdAt, and every list getAllWorks resolves with
\* holds the later one before the earlier one (reverse insertion order);
\* the clock may return the same value on consecutive reads.
C11_CreatedAtFollowsInsertion ==
  \A c, d \in Calls :
    Inserted(c) /\ Inserted(d) /\ c < d =>
      /\ arg[c].createdAt < arg[d].createdAt
      /\ \A g \in Calls :
           Listed(g) /\ arg[c] \in Elems(result[g]) /\ arg[d] \in Elems(result[g]) =>
             Position(result[g], arg[d]) < Position(result[g], arg[c])

\* the step in which the handleUpload that made reload g reports success:
\* the notification, the modal closed, the form reset
Reports(g) ==
  /\ role[g] = "reload" /\ ~consumed[g] /\ consumed'[g]
  /\ toasts' = Append(toasts, Toast(PublishedText, "success"))
  /\ modalOpen' = FALSE
  /\ form' = EmptyForm

\* C12: the insert and the reload are awaited in order, so whenever an upload
\* is reported successful the works list of the UI holds the work it
\* inserted, also when the reload itself has failed.
C12_ReportedIsListed ==
  [][ \A g \in Calls : Reports(g) => arg[owner[g]] \in Elems(works') ]_vars

\* the step in which handleUpload continues after the saveWork of upload c
\* has rejected
SaveFailureStep(c) ==
  role[c] = "upload" /\ outcome[c] = "rejected" /\ ~consumed[c] /\ consumed'[c]

\* C13: when saveWork rejects during an upload, the UI adds exactly one error
\* notification and no other, leaves the form, the modal, the works list and
\* the store as they are, and makes no further call (no retry, no reload);
\* the work of the rejected saveWork is not written, and no reload and so no
\* success report ever follows it.
C13_SaveFailureReported ==
  [][ /\ \A c \in Calls :
           SaveFailureStep(c) =>
             /\ toasts' = Append(toasts, Toast(SaveFailedText, "error"))
             /\ form' = form
             /\ modalOpen' = modalOpen
             /\ works' = works
             /\ records' = records
             /\ op' = op /\ pc' = pc /\ role' = role
      /\ \A c \in Calls :
           role'[c] = "upload" /\ outcome'[c] = "rejected" =>
             /\ tx'[c] \in {"none", "aborted"}
             /\ \A g \in Calls : role'[g] = "reload" => owner'[g] # c
    ]_vars

\* a saveWork has rejected with the modal open and the form filled in, and
\* handleUpload has added its error notification
C13_Witness ==
  \E c \in Calls :
    /\ role[c] = "upload" /\ outcome[c] = "rejected" /\ consumed[c]
    /\ modalOpen /\ form \in Forms
    /\ toasts # << >>
    /\ toasts[Len(toasts)] = Toast(SaveFailedText, "error")

\* the images on screen that show an object URL: the cards of the gallery
\* and the file of the open viewer
Shown == Cards(works, filter) + (IF activeWork = NoWork THEN 0 ELSE 1)

\* C14: every object URL created is released again: no more URLs are live
\* than images are shown, for the file URL of the viewer and for the cover
\* URLs the gallery makes on each render, so the live handles do not grow
\* with the number of renders.
C14_UrlsReleased ==
  /\ fileUrls = (IF activeWork = NoWork THEN 0 ELSE 1)
  /\ coverUrls + fileUrls <= Shown

\* the initial load of call c has rejected and loadData has continued
InitialLoadFailed(c) ==
  role[c] = "mount" /\ outcome[c] = "rejected" /\ consumed[c]

\* a later load has set the works list
Reloaded == \E g \in Calls : role[g] = "reload" /\ Listed(g) /\ consumed[g]

\* C15: when the initial getAllWorks rejects, loadData catches the rejection
\* (none is left unhandled), the works list stays the empty list and the
\* empty gallery is rendered until a later load succeeds, and the rest of
\* the UI stays operable: the upload modal opens, an upload can be submitted
\* while a call is left, and the filter changes.
C15_InitialLoadFailureTolerated ==
  /\ ~unhandled
  /\ \A c \in Calls :
       InitialLoadFailed(c) =>
         /\ ~Reloaded => works = << >> /\ EmptyGallery(works)
         /\ Drained /\ ~modalOpen => ENABLED OpenModal
         /\ Drained /\ modalOpen /\ (\E d \in Calls : pc[d] = "idle") =>
              ENABLED HandleUpload
         /\ ENABLED SetFilter

\* the initial load has rejected, and after it an upload was submitted and
\* has been saved
C15_Witness ==
  \E c, d \in Calls :
    /\ InitialLoadFailed(c)
    /\ works = << >>
    /\ role[d] = "upload" /\ outcome[d] = "resolved"

\* every call made has settled without an error, its transaction is over
\* and the code awaiting it has continued; a call was made
SettledWithoutError ==
  /\ \E c \in Calls : role[c] # "none"
  /\ \A c \in Calls :
       role[c] # "none" =>
         /\ outcome[c] = "resolved" /\ consumed[c]
         /\ tx[c] = "complete" /\ fault[c] = "none"

\* the works list is the whole store, newest first
WorksShowStore ==
  SettledWithoutError => Elems(works) = records /\ Descending(works)

\* no upload fails because the id its handler made is held already
NoIdCollision ==
  \A c \in Calls : role[c] = "upload" => error[c] # "ConstraintError"

\* a load never takes a work off the list: the result of an earlier
\* getAllWorks does not replace that of a later one
WorksOnlyGrow == Elems(works) \subseteq Elems(works')

\* C16: with uploads and loads overlapping, once every call has settled
\* without error the works list of the UI is the whole store, newest first;
\* an earlier getAllWorks result never replaces a later, more complete one;
\* and no upload fails, losing its record, because the ids the handler
\* made collide.
C16_OverlapConsistent ==
  [][ WorksShowStore' /\ WorksOnlyGrow /\ NoIdCollision' ]_vars

====
